---------------------------- MODULE Spec2Model ----------------------------
(***************************************************************************)
(* Model of the stale-bot agent (contributing/samples/stale-bot-agent):    *)
(*   - the history builder, state replayer and issue analyzer (agent.go),  *)
(*   - the remote client with retry/backoff and API-call counter (util.go),*)
(*   - the maintainer cache (agent.go) and the batch orchestrator (main).  *)
(*                                                                         *)
(* Strings that the code inspects (logins, comment bodies) are sequences   *)
(* of tokens, so that HasSuffix and Contains are computed.  Instants are   *)
(* naturals; the zero time.Time (what a failed time.Parse returns) is 0    *)
(* and lies before every real instant.  A Go pointer or `any` that may be  *)
(* nil is a sequence of length 0 (nil) or 1.                               *)
(***************************************************************************)
EXTENDS Naturals, Integers, Sequences, FiniteSets, TLC

VARIABLES
    \* ---- issue analysis (agent.go) ----
    bphase,            \* position of the analysis: "fetch" | "analyzed"
    rawData,           \* the issue object returned by FetchGraphQLData
    maintainers,       \* the list getCachedMaintainers returned to getIssueState
    emitted,           \* buildHistoryTimeline's history before sort.Slice
    history,           \* buildHistoryTimeline's returned timeline
    labelEvents,       \* buildHistoryTimeline's stale-label timestamps
    lastBotAlertTime,  \* buildHistoryTimeline's *time.Time (<<>> is nil)
    state,             \* replayHistoryToFindState's IssueState
    result,            \* getIssueState's returned map
    now,               \* getIssueState's now
    \* ---- the issue on the tracker, across analyses ----
    serverLog,         \* comments and description edits of the issue, in order
    clock,             \* the tracker's current instant
    \* ---- the API-call counter (util.go) ----
    apiCallCount,
    \* ---- one caller of the request helpers (util.go) ----
    rpc,               \* position: "idle" | "attempt" | "sleeping" | "done"
    method,            \* the helper called: "GET" | "POST" | "PATCH" | "DELETE"
    attempt,           \* doRequest's loop variable
    backoff,           \* doRequest's backoff, in seconds
    outcomes,          \* what httpClient.Do returned, attempt by attempt
    sleeps,            \* the durations passed to time.Sleep, in seconds
    resp,              \* the response doRequest returned (<<>> is nil)
    reqResult,         \* what the helper returned: "none" | "data" | "error"
    logicalCalls,      \* helper calls made since the last reset
    \* ---- goroutines using the counter concurrently (util.go) ----
    counterLock,       \* counterLock: Unlocked or the goroutine holding it
    cpc,               \* each goroutine's position in the counter functions
    ctmp,              \* the value apiCallCount++ has loaded
    cread,             \* what the goroutine's last GetAPICallCount returned
    incsDone,          \* increments completed since the last reset
    \* ---- the batch run (main, processSingleIssue, getCachedMaintainers) ----
    mpc,               \* main's position: "search" | "loop" | "chunk" | "sleep" | "finished"
    totalCount,        \* len(allIssues)
    limit,             \* ConcurrencyLimit
    loopI,             \* the chunk loop's i
    tpc,               \* each issue's goroutine: its position
    toolCalls,         \* tool calls the agent has made for the issue
    startAPICalls,     \* processSingleIssue's startAPICalls
    resApiCalls,       \* processSingleIssue's res.apiCalls
    resultsChan,       \* the issues whose result is in resultsChan
    totalIssueAPICalls,
    processedCount,
    searchAPICalls,
    totalAPICallsForRun,
    pacingSleeps,      \* inter-chunk sleeps made
    chunks,            \* the chunks launched so far, in order
    reported,          \* the "Successfully processed" figure of the final log (<<>>: not logged)
    failed,            \* what went wrong in each issue's task: "none" | "session" | "runner" | "panic"
    maintainersCache,  \* <<>> is nil
    fetched,           \* getCachedMaintainers' local list, per goroutine
    ownCalls,          \* request helper calls made for each issue
    callsMade,         \* request helper calls made in the run
    fetchesOK,         \* collaborator fetches that succeeded
    cacheWrites,       \* the lists assigned to maintainersCache, in order
    \* ---- one call of get_issue_state and what its requests return ----
    fpc,               \* position: "idle" | "start" | "listed" | "returned"
    listResult,        \* what getCachedMaintainers returned
    gqlResult,         \* what PostRequest returned to FetchGraphQLData
    toolOut,           \* how getIssueState ended: its payload, or a panic
    \* ---- the two-step actions (closeAsStale, addStaleLabelAndComment) ----
    apc,               \* position: "idle" | "first" | "second" | "returned"
    tool,              \* the action the agent invoked
    calls,             \* the request helper calls of this invocation, in order
    toolResult,        \* ToolResult.Status: "none" | "success" | "failure"
    remote,            \* the issue on the tracker: comments posted, stale label, closed
    invoked            \* invocations made so far

buildVars == <<bphase, rawData, maintainers, emitted, history, labelEvents,
               lastBotAlertTime, state, result, now>>

issueVars == <<serverLog, clock>>

reqVars == <<resp, rpc, method, attempt, backoff, outcomes, sleeps, reqResult, logicalCalls>>

ctrVars == <<counterLock, cpc, ctmp, cread, incsDone>>

mainVars == <<mpc, totalCount, limit, loopI, totalIssueAPICalls, processedCount,
              searchAPICalls, totalAPICallsForRun, pacingSleeps, chunks, reported>>

taskVars == <<tpc, toolCalls, startAPICalls, resApiCalls, resultsChan, fetched, ownCalls,
              failed>>

cacheVars == <<maintainersCache, fetchesOK, cacheWrites>>

runVars == <<mainVars, taskVars, cacheVars, callsMade>>

fetchVars == <<fpc, listResult, gqlResult, toolOut>>

actVars == <<apc, tool, calls, toolResult, remote, invoked>>

vars == <<buildVars, issueVars, apiCallCount, reqVars, ctrVars, runVars, fetchVars, actVars>>

\* what the actions of each specification leave alone
notBuild == <<issueVars, apiCallCount, reqVars, ctrVars, runVars, fetchVars, actVars>>
notIssue == <<apiCallCount, reqVars, ctrVars, runVars, fetchVars, actVars>>
notReq == <<buildVars, issueVars, ctrVars, runVars, fetchVars, actVars>>
notCtr == <<buildVars, issueVars, reqVars, runVars, fetchVars, actVars>>
notRun == <<buildVars, issueVars, reqVars, ctrVars, fetchVars, actVars>>
notFetch == <<buildVars, issueVars, apiCallCount, reqVars, ctrVars, runVars, actVars>>
notAct == <<buildVars, issueVars, reqVars, ctrVars, runVars, fetchVars>>

-----------------------------------------------------------------------------
(* Bounds of the model *)

MaxNodes == 2          \* nodes (comments + edits + timeline items) per snapshot
MaxTime == 2           \* real instants are 1..MaxTime
MaxLog == 4            \* comments and edits an issue receives
MaxCalls == 2          \* request helper calls of one caller
NumGoroutines == 2     \* goroutines using the counter at once
MaxIncrements == 3     \* increments between two resets
MaxIssues == 3         \* issues the search returns
MaxConcurrency == 2    \* values of CONCURRENCY_LIMIT
MaxPages == 2          \* pages the search fetches
MaxToolCalls == 1      \* tool calls the agent makes per issue
MaxActions == 2        \* two-step actions the agent invokes on one issue

(* Program constants *)

ZeroTime == 0
BOT_ALERT_SIGNATURE == <<"**Notification:**", "The author has updated the issue description">>
BOT_NAME == <<"adk-bot">>
BOT_SUFFIX == <<"[bot]">>
STALE_LABEL_NAME == "stale"

retryStatusCodes == {429, 500, 502, 503, 504}
maxRetries == 6
backoffFactor == 2
BaseBackoff == 1       \* time.Second
Unlocked == 0
MaxDuration == 106751      \* the longest time.Duration, in days          \* the zero sync.Mutex

\* GRAPHQL_COMMENT_LIMIT and GRAPHQL_EDIT_LIMIT (defaults 30 and 10), scaled down
GraphQLCommentLimit == 2
GraphQLEditLimit == 2

-----------------------------------------------------------------------------
(* Small domains the inputs are drawn from *)

Times == 1..MaxTime

\* the instants an analysis can take as now: the earliest instant and one
\* after every timestamp
NowTimes == {1, MaxTime + 1}

\* a wire value of a timestamp field: an RFC3339 string of instant t, a string
\* that is not RFC3339, or JSON null
WireTime(t) == [k |-> "rfc3339", t |-> t]
WireGarbage == [k |-> "garbage", t |-> 0]
WireNull == [k |-> "null", t |-> 0]

Alice == <<"alice">>
Bob == <<"bob">>
Carol == <<"carol">>
NoLogin == <<>>
CiBot == <<"ci", "[bot]">>

Logins == {Alice, Bob, Carol, NoLogin, CiBot, BOT_NAME}
IssueAuthors == {Alice, NoLogin, CiBot}
LabelLists == {<<"bug">>, <<"bug", "stale">>}
MaintainerLists == {<<Alice, Bob>>}

AlertBody == BOT_ALERT_SIGNATURE \o <<". Maintainers, please review.">>
Bodies == {<<"**Notification:**", "ping">>, <<"thanks">>, AlertBody}

-----------------------------------------------------------------------------
(* String helpers *)

HasSuffix(s, suffix) ==
    /\ Len(s) >= Len(suffix)
    /\ SubSeq(s, Len(s) - Len(suffix) + 1, Len(s)) = suffix

Contains(s, substr) ==
    \E i \in 1..(Len(s) + 1) :
        /\ i + Len(substr) - 1 <= Len(s)
        /\ SubSeq(s, i, i + Len(substr) - 1) = substr

(* time.Time helpers *)

parseTime(val) == IF val.k = "rfc3339" THEN val.t ELSE ZeroTime

Before(t, u) == t < u

After(t, u) == t > u

isBot(actor) == actor = <<>> \/ HasSuffix(actor, BOT_SUFFIX) \/ actor = BOT_NAME

-----------------------------------------------------------------------------
(* buildHistoryTimeline *)

Event(type, actor, time, data) ==
    [type |-> type, actor |-> actor, time |-> time, data |-> data]

CreatedEventAnonymous(data) ==
    Event("created", NoLogin, parseTime(data.createdAt), <<>>)

CreatedEvent(data) ==
    Event("created", data.author, parseTime(data.createdAt), <<>>)

HasSignature(c) == Contains(c.body, BOT_ALERT_SIGNATURE)

CommentEmitsSignatureUnchecked(c) == ~isBot(c.author)

\* the comment reaches the `if !isBot(actor)` block and is appended
CommentEmits(c) == ~HasSignature(c) /\ ~isBot(c.author)

CommentTimePosted(c) == parseTime(c.createdAt)

\* agent.go:246-249: the edit time when lastEditedAt is a non-empty string
CommentTime(c) ==
    IF c.lastEditedAt.k \in {"rfc3339", "garbage"}
    THEN parseTime(c.lastEditedAt)
    ELSE parseTime(c.createdAt)

CommentEvent(c) == Event("commented", c.author, CommentTime(c), <<c.body>>)

CommentEvents(nodes) ==
    LET kept == SelectSeq(nodes, CommentEmits)
    IN [i \in 1..Len(kept) |-> CommentEvent(kept[i])]

\* the update of lastBotAlertTime by one signature comment
AlertAdvancesToEarliest(cur, cTime) == cur = <<>> \/ Before(cTime, cur[1])

AlertAdvances(cur, cTime) == cur = <<>> \/ After(cTime, cur[1])

RECURSIVE FoldBotAlert(_, _, _)
FoldBotAlert(nodes, i, cur) ==
    IF i > Len(nodes) THEN cur
    ELSE LET c == nodes[i]
             cTime == parseTime(c.createdAt)
         IN IF HasSignature(c) /\ AlertAdvances(cur, cTime)
            THEN FoldBotAlert(nodes, i + 1, <<cTime>>)
            ELSE FoldBotAlert(nodes, i + 1, cur)

EditEmitsAlways(e) == TRUE

\* agent.go:276
EditEmits(e) == ~isBot(e.editor)

EditEvent(e) == Event("edited_description", e.editor, parseTime(e.editedAt), <<>>)

EditEvents(nodes) ==
    LET kept == SelectSeq(nodes, EditEmits)
    IN [i \in 1..Len(kept) |-> EditEvent(kept[i])]

IsStaleLabeling(t) == t.typename = "LabeledEvent" /\ t.label = STALE_LABEL_NAME

ItemEmitsUnlessStaleLabel(t) == ~IsStaleLabeling(t) /\ ~isBot(t.actor)

\* agent.go:304-315: a LabeledEvent ends the iteration whatever its label
ItemEmits(t) == t.typename # "LabeledEvent" /\ ~isBot(t.actor)

ItemEvent(t) ==
    Event(IF t.typename = "RenamedTitleEvent" THEN "renamed_title" ELSE "reopened",
          t.actor, parseTime(t.createdAt), <<>>)

ItemEvents(nodes) ==
    LET kept == SelectSeq(nodes, ItemEmits)
    IN [i \in 1..Len(kept) |-> ItemEvent(kept[i])]

StaleLabelTimes(nodes) ==
    LET kept == SelectSeq(nodes, IsStaleLabeling)
    IN [i \in 1..Len(kept) |-> parseTime(kept[i].createdAt)]

\* the history slice as it stands before the sort (agent.go:211-329)
Emitted(data) ==
    <<CreatedEvent(data)>> \o CommentEvents(data.comments)
        \o EditEvents(data.edits) \o ItemEvents(data.items)

IsSortedByTime(h) ==
    \A i \in 1..Len(h) : \A j \in 1..Len(h) : i < j => ~Before(h[j].time, h[i].time)

Perms(n) == {p \in [1..n -> 1..n] : \A i \in 1..n : \E j \in 1..n : p[j] = i}

\* sort.Slice(history, less): "The sort is not guaranteed to be stable": the
\* result is some permutation of the slice that is ordered by less
SortSlice(h) ==
    {s \in {[i \in 1..Len(h) |-> h[p[i]]] : p \in Perms(Len(h))} : IsSortedByTime(s)}

-----------------------------------------------------------------------------
(* replayHistoryToFindState *)

RECURSIVE isMaintainerFrom(_, _, _)
isMaintainerFrom(actor, ms, i) ==
    IF i > Len(ms) THEN FALSE
    ELSE IF actor = ms[i] THEN TRUE
    ELSE isMaintainerFrom(actor, ms, i + 1)

isMaintainer(actor, ms) == isMaintainerFrom(actor, ms, 1)

RoleMaintainerFirst(actor, ms, issueAuthor) ==
    IF isMaintainer(actor, ms) THEN "maintainer"
    ELSE IF actor = issueAuthor THEN "author"
    ELSE "other_user"

Role(actor, ms, issueAuthor) ==
    IF actor = issueAuthor THEN "author"
    ELSE IF isMaintainer(actor, ms) THEN "maintainer"
    ELSE "other_user"

IssueState(role, time, type, text, actor) ==
    [LastActionRole |-> role, LastActivityTime |-> time, LastActionType |-> type,
     LastCommentText |-> text, LastActorName |-> actor]

ReplayStepKeepsText(st, event, ms, issueAuthor) ==
    IssueState(Role(event.actor, ms, issueAuthor), event.time, event.type,
               IF event.type = "commented" THEN event.data ELSE st.LastCommentText,
               event.actor)

\* agent.go:360-375: the state is overwritten by the event, and the comment
\* text is the event's body for a comment and nil for any other event
ReplayStep(st, event, ms, issueAuthor) ==
    IssueState(Role(event.actor, ms, issueAuthor), event.time, event.type,
               IF event.type = "commented"
               THEN (IF Len(event.data) = 1 THEN event.data ELSE st.LastCommentText)
               ELSE <<>>,
               event.actor)

RECURSIVE ReplayFrom(_, _, _, _, _)
ReplayFrom(st, h, i, ms, issueAuthor) ==
    IF i > Len(h) THEN st
    ELSE ReplayFrom(ReplayStep(st, h[i], ms, issueAuthor), h, i + 1, ms, issueAuthor)

replayHistoryToFindState(h, ms, issueAuthor) ==
    ReplayFrom(IssueState("author", h[1].time, "created", <<>>, issueAuthor),
               h, 1, ms, issueAuthor)

-----------------------------------------------------------------------------
(* getIssueState *)

errorResponse == [status |-> "error"]

NoResult == [status |-> "none"]

NoState == IssueState("", ZeroTime, "", <<>>, <<>>)

NotYetAlertedNotAfter(alert, st) == alert = <<>> \/ ~After(alert[1], st.LastActivityTime)

\* agent.go:627: lastBotAlertTime == nil || lastBotAlertTime.Before(state.LastActivityTime)
NotYetAlerted(alert, st) == alert = <<>> \/ Before(alert[1], st.LastActivityTime)

MaintainerAlertNeeded(st, alert) ==
    /\ st.LastActionRole = "author" \/ st.LastActionRole = "other_user"
    /\ st.LastActionType = "edited_description"
    /\ NotYetAlerted(alert, st)

\* now.Sub(t), in days: a time.Duration holds about 292 years, and the
\* difference to the zero time.Time (year 1) saturates at its maximum
Sub(n, t) == IF t = ZeroTime THEN MaxDuration ELSE n - t

\* agent.go:604-610
IsStale(labelsList) == \E i \in 1..Len(labelsList) : labelsList[i] = STALE_LABEL_NAME

StaleLabelFirst(ts) == ts[1]

\* agent.go:614-619: the latest of the stale-label timestamps
StaleLabelLatest(ts) ==
    LET RECURSIVE Scan(_, _)
        Scan(i, latest) ==
            IF i > Len(ts) THEN latest
            ELSE Scan(i + 1, IF After(ts[i], latest) THEN ts[i] ELSE latest)
    IN Scan(1, ts[1])

DaysSinceStaleLabel(labelsList, ts, n) ==
    IF IsStale(labelsList) /\ Len(ts) > 0 THEN Sub(n, StaleLabelLatest(ts)) ELSE 0

FactSheet(st, alert, labelsList, ts, n) ==
    [status |-> "success",
     last_action_role |-> st.LastActionRole,
     last_action_type |-> st.LastActionType,
     last_actor_name |-> st.LastActorName,
     last_comment_text |-> st.LastCommentText,
     maintainer_alert_needed |-> MaintainerAlertNeeded(st, alert),
     is_stale |-> IsStale(labelsList),
     days_since_activity |-> Sub(n, st.LastActivityTime),
     days_since_stale_label |-> DaysSinceStaleLabel(labelsList, ts, n),
     current_labels |-> labelsList]

\* the analysis of the issue object `data` with the timeline sorted as h
Analyzed(data, h, n) ==
    LET alert == FoldBotAlert(data.comments, 1, <<>>)
        st == replayHistoryToFindState(h, maintainers, data.author)
    IN /\ emitted' = Emitted(data)
       /\ history' = h
       /\ labelEvents' = StaleLabelTimes(data.items)
       /\ lastBotAlertTime' = alert
       /\ state' = st
       /\ now' = n
       /\ result' = FactSheet(st, alert, data.labels, StaleLabelTimes(data.items), n)

-----------------------------------------------------------------------------
(* Specification of one analysis: the issue object is any snapshot with at   *)
(* most MaxNodes nodes, then getIssueState runs on it.                        *)

WireCreated == {WireGarbage} \cup {WireTime(t) : t \in Times}
WireEdited == {WireNull} \cup {WireTime(t) : t \in Times}

CommentNodes ==
    [author : Logins, body : Bodies, createdAt : WireCreated, lastEditedAt : WireEdited]

EditNodes == [editor : Logins, editedAt : WireCreated]

ItemNodes ==
    [typename : {"RenamedTitleEvent", "ReopenedEvent"}, actor : Logins,
     createdAt : WireCreated, label : {""}]
    \cup [typename : {"LabeledEvent"}, actor : {Bob, BOT_NAME},
          createdAt : WireCreated, label : {STALE_LABEL_NAME, "bug"}]

NodeCount(data) == Len(data.comments) + Len(data.edits) + Len(data.items)

IssueIdle == serverLog = <<>> /\ clock = 0

ReqIdle ==
    /\ rpc = "idle"
    /\ method = ""
    /\ attempt = 0
    /\ backoff = 0
    /\ outcomes = <<>>
    /\ sleeps = <<>>
    /\ resp = <<>>
    /\ reqResult = "none"
    /\ logicalCalls = 0

CounterIdle == apiCallCount = 0

Goroutines == 1..NumGoroutines

CtrIdle ==
    /\ counterLock = Unlocked
    /\ cpc = [t \in Goroutines |-> "idle"]
    /\ ctmp = [t \in Goroutines |-> 0]
    /\ cread = [t \in Goroutines |-> 0]
    /\ incsDone = 0

Issues == 1..MaxIssues

NoValue == [kind |-> "none"]

FetchIdle ==
    /\ fpc = "idle"
    /\ listResult = NoValue
    /\ gqlResult = NoValue
    /\ toolOut = NoResult

NoIssueChange == [comments |-> 0, stale |-> FALSE, closed |-> FALSE]

ActIdle ==
    /\ apc = "idle"
    /\ tool = ""
    /\ calls = <<>>
    /\ toolResult = "none"
    /\ remote = NoIssueChange
    /\ invoked = 0

RunIdle ==
    /\ mpc = "idle"
    /\ totalCount = 0
    /\ limit = 0
    /\ loopI = 0
    /\ tpc = [t \in Issues |-> "unstarted"]
    /\ toolCalls = [t \in Issues |-> 0]
    /\ startAPICalls = [t \in Issues |-> 0]
    /\ resApiCalls = [t \in Issues |-> 0]
    /\ resultsChan = {}
    /\ totalIssueAPICalls = 0
    /\ processedCount = 0
    /\ searchAPICalls = 0
    /\ totalAPICallsForRun = 0
    /\ pacingSleeps = 0
    /\ chunks = <<>>
    /\ reported = <<>>
    /\ failed = [t \in Issues |-> "none"]
    /\ maintainersCache = <<>>
    /\ fetched = [t \in Issues |-> <<>>]
    /\ ownCalls = [t \in Issues |-> 0]
    /\ callsMade = 0
    /\ fetchesOK = 0
    /\ cacheWrites = <<>>

BuildIdle ==
    /\ bphase = "idle"
    /\ rawData = <<>>
    /\ maintainers = <<>>
    /\ emitted = <<>>
    /\ history = <<>>
    /\ labelEvents = <<>>
    /\ lastBotAlertTime = <<>>
    /\ state = <<>>
    /\ result = <<>>
    /\ now = ZeroTime

BuildInit ==
    /\ IssueIdle
    /\ CounterIdle
    /\ ReqIdle
    /\ CtrIdle
    /\ RunIdle
    /\ FetchIdle
    /\ ActIdle
    /\ bphase = "fetch"
    /\ rawData \in [author : IssueAuthors, createdAt : WireCreated, labels : LabelLists,
                    comments : {<<>>}, edits : {<<>>}, items : {<<>>}]
    /\ maintainers \in MaintainerLists
    /\ emitted = <<>>
    /\ history = <<>>
    /\ labelEvents = <<>>
    /\ lastBotAlertTime = <<>>
    /\ state = NoState
    /\ result = NoResult
    /\ now = ZeroTime

FetchComment ==
    /\ bphase = "fetch"
    /\ NodeCount(rawData) < MaxNodes
    /\ \E c \in CommentNodes :
        rawData' = [rawData EXCEPT !.comments = Append(@, c)]
    /\ UNCHANGED <<bphase, maintainers, emitted, history, labelEvents,
                   lastBotAlertTime, state, result, now>>
    /\ UNCHANGED notBuild

FetchEdit ==
    /\ bphase = "fetch"
    /\ NodeCount(rawData) < MaxNodes
    /\ \E e \in EditNodes :
        rawData' = [rawData EXCEPT !.edits = Append(@, e)]
    /\ UNCHANGED <<bphase, maintainers, emitted, history, labelEvents,
                   lastBotAlertTime, state, result, now>>
    /\ UNCHANGED notBuild

FetchItem ==
    /\ bphase = "fetch"
    /\ NodeCount(rawData) < MaxNodes
    /\ \E t \in ItemNodes :
        rawData' = [rawData EXCEPT !.items = Append(@, t)]
    /\ UNCHANGED <<bphase, maintainers, emitted, history, labelEvents,
                   lastBotAlertTime, state, result, now>>
    /\ UNCHANGED notBuild

\* getIssueState on the fetched issue object
GetIssueState ==
    /\ bphase = "fetch"
    /\ bphase' = "analyzed"
    /\ \E h \in SortSlice(Emitted(rawData)) : \E n \in NowTimes : Analyzed(rawData, h, n)
    /\ UNCHANGED <<rawData, maintainers>>
    /\ UNCHANGED notBuild

\* getIssueState when getCachedMaintainers or FetchGraphQLData returns an error
GetIssueStateError ==
    /\ bphase = "fetch"
    /\ NodeCount(rawData) = 0
    /\ bphase' = "analyzed"
    /\ result' = errorResponse
    /\ UNCHANGED <<rawData, maintainers, emitted, history, labelEvents,
                   lastBotAlertTime, state, now>>
    /\ UNCHANGED notBuild

BuildNext ==
    \/ FetchComment
    \/ FetchEdit
    \/ FetchItem
    \/ GetIssueState
    \/ GetIssueStateError

SpecBuild == BuildInit /\ [][BuildNext]_vars

-----------------------------------------------------------------------------
(* Properties of one analysis (SpecBuild) *)

AnalysisDone == bphase = "analyzed" /\ result.status = "success"

MaxOf(S) == CHOOSE m \in S : \A x \in S : x <= m

EventsAt(h, t) ==
    LET AtT(e) == e.time = t
    IN SelectSeq(h, AtT)

\* the last element of the emission order among those with the greatest timestamp
LastEmittedAtLatest(h) ==
    LET latest == MaxOf({h[i].time : i \in 1..Len(h)})
        tied == EventsAt(h, latest)
    IN tied[Len(tied)]

\* The part of C1 that the sort does guarantee: timestamps never decrease
\* along the returned timeline, which is a rearrangement of the emitted events.
TimelineChronological ==
    AnalysisDone =>
        /\ Len(history) = Len(emitted)
        /\ \A i \in 1..Len(history) : \A j \in 1..Len(history) :
            i < j => history[i].time <= history[j].time

\* C1: the built timeline is ordered by non-decreasing timestamp, events with
\* equal timestamps keep the order in which the builder emitted them, and the
\* replayed state is that of the last-emitted event among those sharing the
\* greatest timestamp.
C1_StableChronologicalOrder ==
    AnalysisDone =>
        /\ \A i \in 1..Len(history) : \A j \in 1..Len(history) :
            i < j => history[i].time <= history[j].time
        /\ \A t \in {emitted[i].time : i \in 1..Len(emitted)} :
            EventsAt(history, t) = EventsAt(emitted, t)
        /\ LET e == LastEmittedAtLatest(emitted)
           IN /\ state.LastActionType = e.type
              /\ state.LastActorName = e.actor
              /\ state.LastActivityTime = e.time

\* C3: maintainer_alert_needed is true exactly when the replayed last action
\* is a description edit by the author or another user and either no bot
\* alert was found or the latest bot alert is strictly earlier than the last
\* activity.
C3_AlertNeededIff ==
    AnalysisDone =>
        (result.maintainer_alert_needed <=>
            /\ state.LastActionRole \in {"author", "other_user"}
            /\ state.LastActionType = "edited_description"
            /\ \/ lastBotAlertTime = <<>>
               \/ lastBotAlertTime[1] < state.LastActivityTime)

\* a description edit by a non-maintainer is the last action and a bot alert
\* carries the very same instant: no alert is needed
C3_Witness ==
    /\ AnalysisDone
    /\ state.LastActionRole \in {"author", "other_user"}
    /\ state.LastActionType = "edited_description"
    /\ lastBotAlertTime = <<state.LastActivityTime>>
    /\ state.LastActivityTime \in Times
    /\ ~result.maintainer_alert_needed

SignatureComments(data) ==
    {i \in 1..Len(data.comments) :
        Contains(data.comments[i].body, BOT_ALERT_SIGNATURE)}

\* C4: no comment carrying the bot-alert signature becomes a commented event,
\* whoever wrote it; the latest of the post times of these comments is the
\* bot-alert timestamp (none when there is no such comment).
C4_SignatureCommentsFolded ==
    AnalysisDone =>
        /\ \A i \in 1..Len(history) :
            history[i].type = "commented" =>
                ~Contains(history[i].data[1], BOT_ALERT_SIGNATURE)
        /\ Cardinality({i \in 1..Len(history) : history[i].type = "commented"})
             <= Len(rawData.comments) - Cardinality(SignatureComments(rawData))
        /\ LET posted == {parseTime(rawData.comments[i].createdAt) :
                            i \in SignatureComments(rawData)}
           IN IF posted = {} THEN lastBotAlertTime = <<>>
              ELSE lastBotAlertTime = <<MaxOf(posted)>>

\* two signature comments, one by a human and one by a bot, the later one
\* listed first
C4_Witness ==
    /\ AnalysisDone
    /\ Len(rawData.comments) = 2
    /\ SignatureComments(rawData) = {1, 2}
    /\ ~isBot(rawData.comments[1].author)
    /\ isBot(rawData.comments[2].author)
    /\ parseTime(rawData.comments[1].createdAt) > parseTime(rawData.comments[2].createdAt)
    /\ lastBotAlertTime = <<parseTime(rawData.comments[1].createdAt)>>

\* C18: days_since_stale_label is 0 when the stale label is not among the
\* current labels or no stale-label timestamp was recorded; otherwise it is
\* the time from the greatest recorded stale-label timestamp to now, the same
\* now from which days_since_activity is taken.
C18_DaysSinceStaleLabel ==
    AnalysisDone =>
        LET stale == \E i \in 1..Len(rawData.labels) : rawData.labels[i] = "stale"
            recorded == {labelEvents[i] : i \in 1..Len(labelEvents)}
        IN /\ result.is_stale = stale
           /\ result.days_since_activity = Sub(now, state.LastActivityTime)
           /\ IF ~stale \/ recorded = {}
              THEN result.days_since_stale_label = 0
              ELSE result.days_since_stale_label = Sub(now, MaxOf(recorded))

\* the issue is stale and was labelled twice, the later labelling listed last:
\* the days are counted from the later one
C18_Witness ==
    /\ AnalysisDone
    /\ result.is_stale
    /\ Len(labelEvents) = 2
    /\ ZeroTime < labelEvents[1]
    /\ labelEvents[1] < labelEvents[2]
    /\ now > labelEvents[2]
    /\ result.days_since_stale_label = now - labelEvents[2]

\* C19: when nothing beyond the creation is emitted (no node, or only nodes
\* that are filtered out), the timeline is the created event alone and replay
\* returns role author, kind created, the issue author as last actor, the
\* creation time and no comment text, whatever the author login is.
C19_CreationOnly ==
    (AnalysisDone /\ Len(emitted) = 1) =>
        /\ Len(history) = 1
        /\ history[1].type = "created"
        /\ state = IssueState("author", parseTime(rawData.createdAt), "created",
                              <<>>, rawData.author)

\* a bot-like author, and a node that is filtered out
C19_Witness ==
    /\ AnalysisDone
    /\ NodeCount(rawData) > 0
    /\ Len(history) = 1
    /\ isBot(rawData.author)
    /\ rawData.author # NoLogin
    /\ state.LastActionRole = "author"
    /\ state.LastActorName = rawData.author

\* C20: replay returns the actor, the timestamp and the kind of the last
\* element of the timeline, and the role of that actor: author when it is the
\* issue author (also when the author is a maintainer), else maintainer when
\* it is in the maintainer list, else other_user.
C20_LastEventWins ==
    AnalysisDone =>
        LET last == history[Len(history)]
            inList == \E i \in 1..Len(maintainers) : maintainers[i] = last.actor
        IN /\ state.LastActorName = last.actor
           /\ state.LastActivityTime = last.time
           /\ state.LastActionType = last.type
           /\ state.LastActionRole =
                 IF last.actor = rawData.author THEN "author"
                 ELSE IF inList THEN "maintainer"
                 ELSE "other_user"

\* the last of three events is by the author, who is also a maintainer, after
\* an event by another maintainer
C20_Witness ==
    /\ AnalysisDone
    /\ Len(history) = 3
    /\ history[2].actor = Bob
    /\ history[3].actor = rawData.author
    /\ isMaintainer(rawData.author, maintainers)
    /\ history[3].time > history[2].time
    /\ state.LastActionRole = "author"
    /\ state.LastActionType = history[3].type

\* C21: after replay, last_comment_text is set exactly when the last event of
\* the timeline is a commented event, and is then that event's comment body:
\* the body of an earlier comment never survives a later event of any kind.
C21_LastCommentText ==
    AnalysisDone =>
        LET last == history[Len(history)]
        IN /\ (result.last_comment_text # <<>>) <=> (last.type = "commented")
           /\ last.type = "commented" => result.last_comment_text = last.data
           /\ state.LastCommentText = result.last_comment_text

\* two comments with different bodies, the later one last: its body is reported
C21_Witness ==
    /\ AnalysisDone
    /\ Len(history) = 3
    /\ history[2].type = "commented"
    /\ history[3].type = "commented"
    /\ history[2].time < history[3].time
    /\ history[2].data # history[3].data
    /\ result.last_comment_text = history[3].data

\* a comment followed by a later event of another kind: no text is reported
CommentThenOtherEvent ==
    /\ AnalysisDone
    /\ Len(history) = 3
    /\ history[2].type = "commented"
    /\ history[3].type # "commented"
    /\ history[2].time < history[3].time
    /\ result.last_comment_text = <<>>

\* the events of the kinds listed, in timeline order
OfKinds(h, kinds) ==
    LET Listed(e) == e.type \in kinds
    IN SelectSeq(h, Listed)

\* C22: the built timeline is non-empty and holds exactly one created event,
\* attributed to the issue author, and that event is the first element of the
\* sorted timeline whatever the timestamps of the other events are.
C22_CreatedFirst ==
    AnalysisDone =>
        /\ Len(history) >= 1
        /\ Cardinality({i \in 1..Len(history) : history[i].type = "created"}) = 1
        /\ history[1].type = "created"
        /\ history[1].actor = rawData.author

\* what the builder and the sort do guarantee: one created event, by the issue
\* author at the parsed creation time, which is first when every other event
\* is strictly later
CreatedOnceFirstIfEarliest ==
    AnalysisDone =>
        /\ Len(history) >= 1
        /\ OfKinds(history, {"created"})
             = <<[type |-> "created", actor |-> rawData.author,
                  time |-> parseTime(rawData.createdAt), data |-> <<>>]>>
        /\ (\A i \in 1..Len(history) :
                history[i].type # "created" => history[i].time > parseTime(rawData.createdAt))
             => history[1].type = "created"

\* C23 as stated: a label-applied item with the stale label adds its timestamp
\* to the stale-label timestamps (whoever the actor is) and emits no event;
\* every other item whose actor is not bot-like emits exactly one event,
\* renamed_title for a title rename and reopened otherwise.
C23_ItemsEmitOrRecord ==
    AnalysisDone =>
        LET StaleLabel(t) == t.typename = "LabeledEvent" /\ t.label = "stale"
            Other(t) == ~StaleLabel(t) /\ ~isBot(t.actor)
            labelled == SelectSeq(rawData.items, StaleLabel)
            others == SelectSeq(rawData.items, Other)
            events == OfKinds(emitted, {"renamed_title", "reopened"})
        IN /\ labelEvents = [i \in 1..Len(labelled) |-> parseTime(labelled[i].createdAt)]
           /\ Len(events) = Len(others)
           /\ \A i \in 1..Len(events) :
                /\ events[i].actor = others[i].actor
                /\ events[i].time = parseTime(others[i].createdAt)
                /\ events[i].type = IF others[i].typename = "RenamedTitleEvent"
                                    THEN "renamed_title" ELSE "reopened"

\* C23 as amended: a label-applied item never emits an event, whatever its
\* label, and adds its timestamp to the stale-label timestamps when the label
\* is the stale label; every item that is not a label-applied item and whose
\* actor is not bot-like emits exactly one event, renamed_title for a title
\* rename and reopened otherwise.
C23_LabelItemsNeverEmit ==
    AnalysisDone =>
        LET StaleLabel(t) == t.typename = "LabeledEvent" /\ t.label = "stale"
            Other(t) == t.typename # "LabeledEvent" /\ ~isBot(t.actor)
            labelled == SelectSeq(rawData.items, StaleLabel)
            others == SelectSeq(rawData.items, Other)
            events == OfKinds(emitted, {"renamed_title", "reopened"})
        IN /\ labelEvents = [i \in 1..Len(labelled) |-> parseTime(labelled[i].createdAt)]
           /\ Len(events) = Len(others)
           /\ Len(history) = Len(emitted)
           /\ \A i \in 1..Len(events) :
                /\ events[i].actor = others[i].actor
                /\ events[i].time = parseTime(others[i].createdAt)
                /\ events[i].type = IF others[i].typename = "RenamedTitleEvent"
                                    THEN "renamed_title" ELSE "reopened"

\* a person applies another label and the bot applies the stale label: one
\* stale-label timestamp and no event beyond the creation
C23_Witness ==
    /\ AnalysisDone
    /\ Len(rawData.items) = 2
    /\ rawData.items[1].typename = "LabeledEvent"
    /\ rawData.items[1].label = "bug"
    /\ rawData.items[1].actor = Bob
    /\ rawData.items[2].typename = "LabeledEvent"
    /\ rawData.items[2].label = "stale"
    /\ rawData.items[2].actor = BOT_NAME
    /\ labelEvents = <<parseTime(rawData.items[2].createdAt)>>
    /\ Len(history) = 1

\* a title rename and a reopening by people: one event each
ItemsEmitted ==
    /\ AnalysisDone
    /\ Len(rawData.items) = 2
    /\ rawData.items[1].typename = "RenamedTitleEvent"
    /\ rawData.items[2].typename = "ReopenedEvent"
    /\ Len(OfKinds(history, {"renamed_title"})) = 1
    /\ Len(OfKinds(history, {"reopened"})) = 1

BotLike(actor) ==
    \/ actor = <<>>
    \/ actor[Len(actor)] = "[bot]"
    \/ actor = <<"adk-bot">>

\* C24: no commented, edited_description, renamed_title or reopened event of a
\* built timeline has a bot-like actor (empty login, login ending in "[bot]",
\* or the bot's own name); only the created event may carry one.
C24_NoBotEvents ==
    AnalysisDone =>
        \A i \in 1..Len(history) :
            /\ history[i].type \in {"commented", "edited_description", "renamed_title",
                                    "reopened"} => ~BotLike(history[i].actor)
            /\ BotLike(history[i].actor) => history[i].type = "created"

\* an issue opened by a bot, with a plain comment by the bot itself and a
\* description edit by a bot-suffixed login: only the created event remains
C24_Witness ==
    /\ AnalysisDone
    /\ rawData.author = CiBot
    /\ Len(rawData.comments) = 1
    /\ rawData.comments[1].author = BOT_NAME
    /\ ~HasSignature(rawData.comments[1])
    /\ Len(rawData.edits) = 1
    /\ rawData.edits[1].editor = CiBot
    /\ Len(history) = 1
    /\ history[1].actor = CiBot

\* C25: every non-bot comment without the bot-alert signature gives exactly
\* one commented event, timed at the comment's last edit when it was edited
\* and at its posting otherwise; when such an event is the last of the
\* timeline, days_since_activity is counted from that time.
C25_CommentEditTime ==
    AnalysisDone =>
        LET Kept(c) == ~BotLike(c.author) /\ ~Contains(c.body, BOT_ALERT_SIGNATURE)
            kept == SelectSeq(rawData.comments, Kept)
            events == OfKinds(emitted, {"commented"})
            last == history[Len(history)]
        IN /\ Len(events) = Len(kept)
           /\ Len(OfKinds(history, {"commented"})) = Len(kept)
           /\ \A i \in 1..Len(events) :
                /\ events[i].actor = kept[i].author
                /\ events[i].data = <<kept[i].body>>
                /\ events[i].time = IF kept[i].lastEditedAt.k = "null"
                                    THEN parseTime(kept[i].createdAt)
                                    ELSE parseTime(kept[i].lastEditedAt)
           /\ last.type = "commented" =>
                result.days_since_activity = Sub(now, last.time)

\* a comment posted at 1 and edited at 2 is the last event: one day of
\* inactivity at 3, not two
C25_Witness ==
    /\ AnalysisDone
    /\ Len(rawData.comments) = 1
    /\ rawData.comments[1].createdAt = WireTime(1)
    /\ rawData.comments[1].lastEditedAt = WireTime(2)
    /\ Len(history) = 2
    /\ history[2].type = "commented"
    /\ history[2].time = 2
    /\ now = 3
    /\ result.days_since_activity = 1

-----------------------------------------------------------------------------
(* Specification of one issue over time: users and bots comment and edit the *)
(* description, alertMaintainerOfEdit posts its comment, and getIssueState   *)
(* analyses the snapshot FetchGraphQLData returns (the last                  *)
(* GraphQLCommentLimit comments and the last GraphQLEditLimit edits).        *)

LogEntry(kind, actor, body, time, via) ==
    [kind |-> kind, actor |-> actor, body |-> body, time |-> time, via |-> via]

IsComment(x) == x.kind = "comment"

IsEdit(x) == x.kind = "edit"

\* `last: n` of a connection
Window(s, n) == IF Len(s) > n THEN SubSeq(s, Len(s) - n + 1, Len(s)) ELSE s

CommentNode(x) ==
    [author |-> x.actor, body |-> x.body, createdAt |-> WireTime(x.time),
     lastEditedAt |-> WireNull]

EditNode(x) == [editor |-> x.actor, editedAt |-> WireTime(x.time)]

Snapshot(log) ==
    LET cs == SelectSeq(log, IsComment)
        es == SelectSeq(log, IsEdit)
    IN [author |-> Alice,
        createdAt |-> WireTime(1),
        labels |-> <<>>,
        comments |-> Window([i \in 1..Len(cs) |-> CommentNode(cs[i])], GraphQLCommentLimit),
        edits |-> Window([i \in 1..Len(es) |-> EditNode(es[i])], GraphQLEditLimit),
        items |-> <<>>]

\* the result of an earlier analysis is gone once the issue changes
AnalysisDropped ==
    /\ bphase' = "fetch"
    /\ rawData' = Snapshot(<<>>)
    /\ emitted' = <<>>
    /\ history' = <<>>
    /\ labelEvents' = <<>>
    /\ lastBotAlertTime' = <<>>
    /\ state' = NoState
    /\ result' = NoResult
    /\ now' = ZeroTime
    /\ UNCHANGED maintainers

IssueInit ==
    /\ CounterIdle
    /\ ReqIdle
    /\ CtrIdle
    /\ RunIdle
    /\ FetchIdle
    /\ ActIdle
    /\ serverLog = <<>>
    /\ clock = 1
    /\ bphase = "fetch"
    /\ rawData = Snapshot(<<>>)
    /\ maintainers \in MaintainerLists
    /\ emitted = <<>>
    /\ history = <<>>
    /\ labelEvents = <<>>
    /\ lastBotAlertTime = <<>>
    /\ state = NoState
    /\ result = NoResult
    /\ now = ZeroTime

Tick ==
    /\ clock < MaxTime
    /\ clock' = clock + 1
    /\ UNCHANGED serverLog
    /\ UNCHANGED <<buildVars, notIssue>>

PostComment ==
    /\ Len(serverLog) < MaxLog
    /\ \E actor \in {Bob, CiBot}, body \in Bodies :
        serverLog' = Append(serverLog, LogEntry("comment", actor, body, clock, "user"))
    /\ UNCHANGED <<clock, notIssue>>
    /\ AnalysisDropped

EditDescription ==
    /\ Len(serverLog) < MaxLog
    /\ \E actor \in {Alice, Bob, Carol, CiBot} :
        serverLog' = Append(serverLog, LogEntry("edit", actor, <<>>, clock, "user"))
    /\ UNCHANGED <<clock, notIssue>>
    /\ AnalysisDropped

\* alertMaintainerOfEdit, its PostRequest succeeding
AlertMaintainerOfEdit ==
    /\ Len(serverLog) < MaxLog
    /\ serverLog' = Append(serverLog,
                           LogEntry("comment", BOT_NAME, AlertBody, clock,
                                    "alertMaintainerOfEdit"))
    /\ UNCHANGED <<clock, notIssue>>
    /\ AnalysisDropped

\* getIssueState on the current snapshot of the issue
AnalyzeIssue ==
    /\ bphase = "fetch"
    /\ bphase' = "analyzed"
    /\ rawData' = Snapshot(serverLog)
    /\ \E h \in SortSlice(Emitted(Snapshot(serverLog))) : Analyzed(Snapshot(serverLog), h, clock)
    /\ UNCHANGED <<maintainers, serverLog, clock, notIssue>>

IssueNext ==
    \/ Tick
    \/ PostComment
    \/ EditDescription
    \/ AlertMaintainerOfEdit
    \/ AnalyzeIssue

SpecIssue == IssueInit /\ [][IssueNext]_vars

IsHumanEdit(x) == IsEdit(x) /\ ~isBot(x.actor)

\* entry i is an alert posted by alertMaintainerOfEdit after a description
\* edit, and no non-bot description edit follows it
AlertCoversEdits(log, i) ==
    /\ log[i].via = "alertMaintainerOfEdit"
    /\ \E j \in 1..(i - 1) : IsEdit(log[j])
    /\ \A k \in (i + 1)..Len(log) : ~IsHumanEdit(log[k])

CommentsSince(log, i) == Cardinality({k \in (i + 1)..Len(log) : IsComment(log[k])})

\* C2 as stated: once alertMaintainerOfEdit has posted its comment after a
\* description edit, every analysis reports maintainer_alert_needed = false
\* until a new non-bot description edit follows the alert, whatever comments
\* are added and whatever the comment window is.
C2_NoRepeatedAlert ==
    (AnalysisDone /\ \E i \in 1..Len(serverLog) : AlertCoversEdits(serverLog, i))
        => ~result.maintainer_alert_needed

\* C2 as amended: the same, as long as the alert comment is still among the
\* GraphQLCommentLimit most recent comments of the issue.
C2_NoRepeatedAlertInWindow ==
    (AnalysisDone /\ \E i \in 1..Len(serverLog) :
            /\ AlertCoversEdits(serverLog, i)
            /\ CommentsSince(serverLog, i) < GraphQLCommentLimit)
        => ~result.maintainer_alert_needed

\* the author's edit is still the last action, the alert was posted in the
\* same second as the edit and a bot commented since
C2_Witness ==
    /\ AnalysisDone
    /\ \E i \in 1..Len(serverLog) :
        /\ AlertCoversEdits(serverLog, i)
        /\ CommentsSince(serverLog, i) = GraphQLCommentLimit - 1
        /\ lastBotAlertTime = <<serverLog[i].time>>
    /\ state.LastActionType = "edited_description"
    /\ state.LastActionRole = "author"
    /\ lastBotAlertTime = <<state.LastActivityTime>>
    /\ ~result.maintainer_alert_needed

-----------------------------------------------------------------------------
(* The request helpers and doRequest (util.go), one caller at a time *)

Methods == {"GET", "POST", "PATCH", "DELETE"}

Statuses == {200, 204, 404, 429, 503}

\* what httpClient.Do returns: a transport error, or a response with a status
AttemptOutcomes ==
    [err : {TRUE}, status : {0}] \cup [err : {FALSE}, status : Statuses]

incrementAPICallCount(n) == n + 1

AttemptCountIncremented(n) == n + 1

\* the counter across one attempt of doRequest, which does not touch it
AttemptCount(n) == n

\* POST and PATCH hand httpClient.Do a request whose body is one bytes.Buffer
HasBody(m) == m \in {"POST", "PATCH"}

\* the same *http.Request goes to httpClient.Do at every attempt: once an
\* attempt has been answered the buffer has been read to its end, and a later
\* attempt carries no payload
BodyDrained(m, outs) == HasBody(m) /\ \E i \in 1..Len(outs) : ~outs[i].err

\* what an attempt can come back with: an attempt without its payload fails in
\* the transport or is refused or rejected by the server, never accepted
PossibleOutcomes(m, outs) ==
    IF BodyDrained(m, outs)
    THEN {o \in AttemptOutcomes : o.err \/ o.status \notin {200, 204}}
    ELSE AttemptOutcomes

ReturnsResponseOnlyOK(o) == ~o.err /\ o.status = 200

\* util.go:74: err == nil && !retryStatusCodes[resp.StatusCode]
ReturnsResponse(o) == ~o.err /\ o.status \notin retryStatusCodes

IsFinalAttemptNever(a) == FALSE

\* util.go:82: attempt == maxRetries
IsFinalAttempt(a) == a = maxRetries

\* what the helper returns for the response doRequest handed back: the decoded
\* body, or decodeJSON's error; DeleteRequest does not decode a 204
HelperResults(m, o) ==
    IF m = "DELETE" /\ o.status = 204 THEN {"data"} ELSE {"data", "error"}

ReqInit ==
    /\ BuildIdle
    /\ IssueIdle
    /\ CounterIdle
    /\ CtrIdle
    /\ RunIdle
    /\ FetchIdle
    /\ ActIdle
    /\ ReqIdle

\* GetRequest / PostRequest / PatchRequest / DeleteRequest up to doRequest's loop
StartRequest(m) ==
    /\ rpc \in {"idle", "done"}
    /\ logicalCalls < MaxCalls
    /\ apiCallCount' = incrementAPICallCount(apiCallCount)
    /\ logicalCalls' = logicalCalls + 1
    /\ method' = m
    /\ attempt' = 0
    /\ backoff' = BaseBackoff
    /\ outcomes' = <<>>
    /\ sleeps' = <<>>
    /\ resp' = <<>>
    /\ \/ rpc' = "attempt" /\ reqResult' = "none"
       \/ rpc' = "done" /\ reqResult' = "error"    \* url.Parse or http.NewRequest fails
    /\ UNCHANGED notReq

\* one iteration of doRequest's loop up to the sleep
DoAttempt ==
    /\ rpc = "attempt"
    /\ \E o \in PossibleOutcomes(method, outcomes) :
        /\ outcomes' = Append(outcomes, o)
        /\ \/ /\ ReturnsResponse(o)
              /\ rpc' = "done"
              /\ resp' = <<o>>
              /\ reqResult' \in HelperResults(method, o)
           \/ /\ ~ReturnsResponse(o)
              /\ IsFinalAttempt(attempt)
              /\ rpc' = "done"
              /\ resp' = <<>>
              /\ reqResult' = "error"
           \/ /\ ~ReturnsResponse(o)
              /\ ~IsFinalAttempt(attempt)
              /\ rpc' = "sleeping"
              /\ resp' = <<>>
              /\ reqResult' = "none"
    /\ apiCallCount' = AttemptCount(apiCallCount)
    /\ UNCHANGED <<method, attempt, backoff, sleeps, logicalCalls>>
    /\ UNCHANGED notReq

\* time.Sleep(backoff); backoff *= backoffFactor; attempt++ and the loop test
BackoffSleep ==
    /\ rpc = "sleeping"
    /\ sleeps' = Append(sleeps, backoff)
    /\ backoff' = backoff * backoffFactor
    /\ attempt' = attempt + 1
    /\ IF attempt + 1 <= maxRetries
       THEN rpc' = "attempt" /\ reqResult' = "none"
       ELSE rpc' = "done" /\ reqResult' = "error"
    /\ UNCHANGED <<apiCallCount, method, outcomes, resp, logicalCalls>>
    /\ UNCHANGED notReq

ResetAPICallCount ==
    /\ rpc \in {"idle", "done"}
    /\ logicalCalls > 0
    /\ apiCallCount' = 0
    /\ logicalCalls' = 0
    /\ UNCHANGED <<rpc, method, attempt, backoff, outcomes, sleeps, resp, reqResult>>
    /\ UNCHANGED notReq

ReqNext ==
    \/ \E m \in Methods : StartRequest(m)
    \/ DoAttempt
    \/ BackoffSleep
    \/ ResetAPICallCount

SpecReq == ReqInit /\ [][ReqNext]_vars

IsTransient(o) == ~o.err /\ o.status \in {429, 500, 502, 503, 504}

RECURSIVE Doubled(_, _)
Doubled(x, k) == IF k = 0 THEN x ELSE 2 * Doubled(x, k - 1)

\* C8: the counter moves by exactly one per helper call, whatever the number
\* of attempts and whether the call succeeds: it reads the number of helper
\* calls made since the last reset.
C8_CountedOncePerCall == apiCallCount = logicalCalls

\* the second call since the reset got a 503 and then an answer at its second
\* attempt: the counter reads 2
C8_Witness ==
    /\ rpc = "done"
    /\ logicalCalls = 2
    /\ apiCallCount = 2
    /\ Len(outcomes) = 2
    /\ outcomes[1] = [err |-> FALSE, status |-> 503]
    /\ reqResult = "data"

\* C10: a request makes at most maxRetries + 1 = 7 attempts, the wait before
\* retry n is one second doubled n - 1 times, no wait follows the last
\* attempt, and a request all of whose attempts got a transient status ends
\* with an error.
C10_BoundedRetries ==
    /\ Len(outcomes) <= 7
    /\ \A n \in 1..Len(sleeps) : sleeps[n] = Doubled(1, n - 1)
    /\ rpc = "attempt" => Len(sleeps) = Len(outcomes)
    /\ rpc \in {"sleeping", "done"} /\ outcomes # <<>> => Len(sleeps) = Len(outcomes) - 1
    /\ (rpc = "done" /\ outcomes # <<>> /\ \A i \in 1..Len(outcomes) : IsTransient(outcomes[i]))
          => reqResult = "error" /\ Len(outcomes) = 7

C10_Witness ==
    /\ rpc = "done"
    /\ Len(outcomes) = 7
    /\ \A i \in 1..7 : IsTransient(outcomes[i])
    /\ sleeps = <<1, 2, 4, 8, 16, 32>>
    /\ reqResult = "error"

\* the attempts that were followed by another attempt or by a backoff sleep
Retried == {i \in 1..Len(outcomes) : i < Len(outcomes) \/ rpc = "sleeping"}

\* C11: an attempt is followed by a sleep and another attempt only when it
\* came back as a response with a transient status; any other outcome, a
\* transport failure included, ends the request at once.
C11_RetryOnlyOnTransientStatus ==
    \A i \in Retried : IsTransient(outcomes[i])

\* what the code does: the attempts retried are those with a transport error
\* or a transient status
RetryOnErrorOrTransient ==
    \A i \in Retried : outcomes[i].err \/ IsTransient(outcomes[i])

\* the attempts before the last each came back with a transient status and the
\* last with a response of another status
TransientThenAnswer ==
    /\ outcomes # <<>>
    /\ \A i \in 1..(Len(outcomes) - 1) : IsTransient(outcomes[i])
    /\ ~outcomes[Len(outcomes)].err
    /\ ~IsTransient(outcomes[Len(outcomes)])

\* C12: when the first k attempts (1 <= k <= maxRetries) got a transient
\* status and attempt k + 1 another status, doRequest is over after exactly
\* k + 1 attempts and k sleeps and has returned that last response.
C12_SuccessAfterTransients ==
    TransientThenAnswer =>
        /\ rpc = "done"
        /\ resp = <<outcomes[Len(outcomes)]>>
        /\ Len(sleeps) = Len(outcomes) - 1
        /\ attempt = Len(outcomes) - 1
        /\ Len(outcomes) <= maxRetries + 1

\* a 503 and then a 200: returned after two attempts and one sleep
C12_Witness ==
    /\ rpc = "done"
    /\ outcomes = <<[err |-> FALSE, status |-> 503], [err |-> FALSE, status |-> 200]>>
    /\ sleeps = <<1>>
    /\ resp = <<[err |-> FALSE, status |-> 200]>>

-----------------------------------------------------------------------------
(* The API-call counter used by several goroutines at once (util.go:32-53). *)
(* apiCallCount++ is a load and a store.                                     *)

MutexAvailableAlways(lock) == TRUE

\* counterLock.Lock() returns only when the mutex is not held
MutexAvailable(lock) == lock = Unlocked

IncrementsInFlight ==
    Cardinality({t \in Goroutines : cpc[t] \in {"inc_wait", "inc_locked", "inc_loaded"}})

CtrInit ==
    /\ BuildIdle
    /\ IssueIdle
    /\ ReqIdle
    /\ CounterIdle
    /\ CtrIdle
    /\ RunIdle
    /\ FetchIdle
    /\ ActIdle

\* incrementAPICallCount is called
IncCall(t) ==
    /\ cpc[t] = "idle"
    /\ incsDone + IncrementsInFlight < MaxIncrements
    /\ cpc' = [cpc EXCEPT ![t] = "inc_wait"]
    /\ UNCHANGED <<apiCallCount, counterLock, ctmp, cread, incsDone>>
    /\ UNCHANGED notCtr

IncLock(t) ==
    /\ cpc[t] = "inc_wait"
    /\ MutexAvailable(counterLock)
    /\ counterLock' = t
    /\ cpc' = [cpc EXCEPT ![t] = "inc_locked"]
    /\ UNCHANGED <<apiCallCount, ctmp, cread, incsDone>>
    /\ UNCHANGED notCtr

IncLoad(t) ==
    /\ cpc[t] = "inc_locked"
    /\ ctmp' = [ctmp EXCEPT ![t] = apiCallCount]
    /\ cpc' = [cpc EXCEPT ![t] = "inc_loaded"]
    /\ UNCHANGED <<apiCallCount, counterLock, cread, incsDone>>
    /\ UNCHANGED notCtr

IncStore(t) ==
    /\ cpc[t] = "inc_loaded"
    /\ apiCallCount' = ctmp[t] + 1
    /\ incsDone' = incsDone + 1
    /\ cpc' = [cpc EXCEPT ![t] = "inc_stored"]
    /\ UNCHANGED <<counterLock, ctmp, cread>>
    /\ UNCHANGED notCtr

IncUnlock(t) ==
    /\ cpc[t] = "inc_stored"
    /\ counterLock' = Unlocked
    /\ cpc' = [cpc EXCEPT ![t] = "idle"]
    /\ UNCHANGED <<apiCallCount, ctmp, cread, incsDone>>
    /\ UNCHANGED notCtr

\* GetAPICallCount: Lock
GetLock(t) ==
    /\ cpc[t] = "idle"
    /\ MutexAvailable(counterLock)
    /\ counterLock' = t
    /\ cpc' = [cpc EXCEPT ![t] = "get_locked"]
    /\ UNCHANGED <<apiCallCount, ctmp, cread, incsDone>>
    /\ UNCHANGED notCtr

\* GetAPICallCount: return apiCallCount, then the deferred Unlock
GetReturn(t) ==
    /\ cpc[t] = "get_locked"
    /\ cread' = [cread EXCEPT ![t] = apiCallCount]
    /\ counterLock' = Unlocked
    /\ cpc' = [cpc EXCEPT ![t] = "idle"]
    /\ UNCHANGED <<apiCallCount, ctmp, incsDone>>
    /\ UNCHANGED notCtr

\* ResetAPICallCount: Lock
ResetLock(t) ==
    /\ cpc[t] = "idle"
    /\ MutexAvailable(counterLock)
    /\ counterLock' = t
    /\ cpc' = [cpc EXCEPT ![t] = "reset_locked"]
    /\ UNCHANGED <<apiCallCount, ctmp, cread, incsDone>>
    /\ UNCHANGED notCtr

\* ResetAPICallCount: apiCallCount = 0, then the deferred Unlock
ResetStore(t) ==
    /\ cpc[t] = "reset_locked"
    /\ apiCallCount' = 0
    /\ incsDone' = 0
    /\ counterLock' = Unlocked
    /\ cpc' = [cpc EXCEPT ![t] = "idle"]
    /\ UNCHANGED <<ctmp, cread>>
    /\ UNCHANGED notCtr

CtrNext ==
    \E t \in Goroutines :
        \/ IncCall(t)
        \/ IncLock(t)
        \/ IncLoad(t)
        \/ IncStore(t)
        \/ IncUnlock(t)
        \/ GetLock(t)
        \/ GetReturn(t)
        \/ ResetLock(t)
        \/ ResetStore(t)

SpecCounter == CtrInit /\ [][CtrNext]_vars

\* C9: no increment is lost under any interleaving: the counter always holds
\* the number of increments completed since the last reset, a step other than
\* a reset never lowers it, and a read returns that number.
C9_NoLostIncrement ==
    /\ [](apiCallCount = incsDone)
    /\ [][(\A t \in Goroutines : cpc[t] # "reset_locked")
            => apiCallCount' >= apiCallCount]_vars
    /\ [][\A t \in Goroutines :
            (cpc[t] = "get_locked" /\ cpc'[t] = "idle") => cread'[t] = incsDone]_vars

\* one goroutine has loaded the counter while another waits to increment, and
\* an earlier read by the latter returned the increment made before
C9_Witness ==
    /\ cpc[1] = "inc_loaded"
    /\ cpc[2] = "inc_wait"
    /\ apiCallCount = 1
    /\ incsDone = 1
    /\ cread[2] = 1


\* ---------------------------------------------------------------------------
\* The batch run: main searches for the old open issues and processes them in
\* chunks of ConcurrencyLimit goroutines, each running processSingleIssue; the
\* tools the agent calls read and write the package-level maintainersCache and
\* count their requests in the shared apiCallCount.  The counter's increments
\* are single steps here (its mutex is the subject of SpecCounter).
\* ---------------------------------------------------------------------------

\* the collaborator lists the server can answer with
CollaboratorLists == {<<Bob>>, <<Alice, Bob>>}

\* what a word-torn slice holds past the end of its array
Unknown == <<"?">>

Min(a, b) == IF a < b THEN a ELSE b

RECURSIVE SumOver(_, _)
SumOver(f, S) ==
    IF S = {} THEN 0
    ELSE LET x == CHOOSE y \in S : TRUE IN f[x] + SumOver(f, S \ {x})

\* the issues of the chunk in flight: allIssues[i:end]
ChunkOf(i, n, total) == (i + 1)..Min(i + n, total)

Chunk == ChunkOf(loopI, limit, totalCount)

\* a slice header whose pointer and length come from different assignments
SliceOf(arr, n) == [i \in 1..n |-> IF i <= Len(arr) THEN arr[i] ELSE Unknown]

\* maintainersCache is read and written without synchronisation: an access that
\* overlaps another goroutine's assignment of `new` over `old` can see the
\* pointer of one with the length of the other
TornValues(old, new) ==
    LET arrs == {new} \cup (IF old = <<>> THEN {} ELSE {old[1]})
        lens == {Len(new)} \cup (IF old = <<>> THEN {0} ELSE {Len(old[1])})
    IN  {<<SliceOf(a, n)>> : a \in arrs, n \in lens}

\* the goroutines other than t that are at the assignment of agent.go:91
Writers(t) == {u \in Issues \ {t} : tpc[u] = "store"}

RacyRead(t) ==
    {maintainersCache} \cup UNION {TornValues(maintainersCache, fetched[u]) : u \in Writers(t)}

RacyWrite(t) ==
    {<<fetched[t]>>} \cup UNION {TornValues(<<fetched[t]>>, fetched[u]) : u \in Writers(t)}

\* the nil test on the slice read
CacheIsNil(obs) == obs = <<>>

\* wg.Wait: every goroutine of the chunk has called wg.Done
WaitGroupDoneAny(chunk, pcs) == \E t \in chunk : pcs[t] = "done"
WaitGroupDone(chunk, pcs) == \A t \in chunk : pcs[t] = "done"

\* part_000:269: if end < totalCount
SleepsAfterChunkAlways(end, total) == TRUE
SleepsAfterChunk(end, total) == end < total

\* part_000:238-243: allIssues[i:end] panics when end < i, and
\* i / ConcurrencyLimit panics when the limit is 0
LoopBodyPanics(i, n, total) == Min(i + n, total) < i \/ n = 0

\* one call of a request helper made for issue t
HelperCall(t) ==
    /\ apiCallCount' = incrementAPICallCount(apiCallCount)
    /\ ownCalls' = [ownCalls EXCEPT ![t] = @ + 1]
    /\ callsMade' = callsMade + 1

\* res.apiCalls, measured as a difference of two reads of the shared counter
ApiCallsDelta(startCalls, endCalls) == endCalls - startCalls

RunInit ==
    /\ BuildIdle
    /\ IssueIdle
    /\ ReqIdle
    /\ CounterIdle
    /\ CtrIdle
    /\ FetchIdle
    /\ ActIdle
    /\ mpc = "search"
    /\ totalCount = 0
    /\ limit \in 1..MaxConcurrency
    /\ loopI = 0
    /\ tpc = [t \in Issues |-> "unstarted"]
    /\ toolCalls = [t \in Issues |-> 0]
    /\ startAPICalls = [t \in Issues |-> 0]
    /\ resApiCalls = [t \in Issues |-> 0]
    /\ resultsChan = {}
    /\ totalIssueAPICalls = 0
    /\ processedCount = 0
    /\ searchAPICalls = 0
    /\ totalAPICallsForRun = 0
    /\ pacingSleeps = 0
    /\ chunks = <<>>
    /\ reported = <<>>
    /\ failed = [t \in Issues |-> "none"]
    /\ maintainersCache = <<>>
    /\ fetched = [t \in Issues |-> <<>>]
    /\ ownCalls = [t \in Issues |-> 0]
    /\ callsMade = 0
    /\ fetchesOK = 0
    /\ cacheWrites = <<>>

\* main: ResetAPICallCount, GetOldOpenIssueNumbers, the count of its calls, and
\* the early return when nothing matched
Search ==
    /\ mpc = "search"
    /\ \E n \in 0..MaxIssues, pages \in 1..MaxPages :
        /\ apiCallCount' = pages
        /\ callsMade' = callsMade + pages
        /\ totalCount' = n
        /\ searchAPICalls' = pages
        /\ mpc' = IF n = 0 THEN "finished" ELSE "loop"
    /\ UNCHANGED <<limit, loopI, totalIssueAPICalls, processedCount,
                   totalAPICallsForRun, pacingSleeps, chunks, reported,
                   taskVars, cacheVars, notRun>>

\* main: one iteration of the chunk loop up to the launch of its goroutines
StartChunk ==
    /\ mpc = "loop"
    /\ loopI < totalCount
    /\ ~LoopBodyPanics(loopI, limit, totalCount)
    /\ tpc' = [t \in Issues |-> IF t \in Chunk THEN "start" ELSE tpc[t]]
    /\ resultsChan' = {}
    /\ chunks' = Append(chunks, Chunk)
    /\ mpc' = "chunk"
    /\ UNCHANGED <<failed, reported, totalCount, limit, loopI, totalIssueAPICalls, processedCount,
                   searchAPICalls, totalAPICallsForRun, pacingSleeps,
                   toolCalls, startAPICalls, resApiCalls, fetched, ownCalls,
                   cacheVars, callsMade, apiCallCount, notRun>>

\* processSingleIssue: the first reading of the counter
TaskStart(t) ==
    /\ tpc[t] = "start"
    /\ startAPICalls' = [startAPICalls EXCEPT ![t] = apiCallCount]
    /\ tpc' = [tpc EXCEPT ![t] = "setup"]
    /\ UNCHANGED <<failed, mainVars, toolCalls, resApiCalls, resultsChan, fetched, ownCalls,
                   cacheVars, callsMade, apiCallCount, notRun>>

\* processSingleIssue: the session and the runner are created and the agent runs
SetupDone(t) ==
    /\ tpc[t] = "setup"
    /\ tpc' = [tpc EXCEPT ![t] = "agent"]
    /\ UNCHANGED <<mainVars, toolCalls, startAPICalls, resApiCalls, resultsChan, fetched,
                   ownCalls, failed, cacheVars, callsMade, apiCallCount, notRun>>

\* processSingleIssue: sessionService.Create fails; the error is logged and the
\* closure returns
SessionCreateFails(t) ==
    /\ tpc[t] = "setup"
    /\ failed' = [failed EXCEPT ![t] = "session"]
    /\ tpc' = [tpc EXCEPT ![t] = "end"]
    /\ UNCHANGED <<mainVars, toolCalls, startAPICalls, resApiCalls, resultsChan, fetched,
                   ownCalls, cacheVars, callsMade, apiCallCount, notRun>>

\* the goroutines that os.Exit or a terminating signal stops where they are
Stopped(pcs) ==
    [u \in Issues |-> IF pcs[u] \in {"unstarted", "done"} THEN pcs[u] ELSE "killed"]

\* processSingleIssue: runner.New fails and log.Fatalf ends the process
RunnerNewFails(t) ==
    /\ tpc[t] = "setup"
    /\ failed' = [failed EXCEPT ![t] = "runner"]
    /\ tpc' = Stopped(tpc)
    /\ mpc' = "exited"
    /\ UNCHANGED <<totalCount, limit, loopI, totalIssueAPICalls, processedCount,
                   searchAPICalls, totalAPICallsForRun, pacingSleeps, chunks, reported,
                   toolCalls, startAPICalls, resApiCalls, resultsChan, fetched,
                   ownCalls, cacheVars, callsMade, apiCallCount, notRun>>

\* the process receives a terminating signal (no handler is installed, and the
\* context of main is cancelled by nothing but main's return)
Shutdown ==
    /\ mpc \in {"loop", "chunk", "sleep"}
    /\ tpc' = Stopped(tpc)
    /\ mpc' = "killed"
    /\ UNCHANGED <<totalCount, limit, loopI, totalIssueAPICalls, processedCount,
                   searchAPICalls, totalAPICallsForRun, pacingSleeps, chunks, reported,
                   toolCalls, startAPICalls, resApiCalls, resultsChan, fetched,
                   ownCalls, failed, cacheVars, callsMade, apiCallCount, notRun>>

\* the agent calls get_issue_state, which starts with getCachedMaintainers
CallGetIssueState(t) ==
    /\ tpc[t] = "agent"
    /\ toolCalls[t] < MaxToolCalls
    /\ toolCalls' = [toolCalls EXCEPT ![t] = @ + 1]
    /\ tpc' = [tpc EXCEPT ![t] = "cache"]
    /\ UNCHANGED <<failed, mainVars, startAPICalls, resApiCalls, resultsChan, fetched, ownCalls,
                   cacheVars, callsMade, apiCallCount, notRun>>

\* getCachedMaintainers: the nil test and the return of the cached list
CacheCheck(t) ==
    /\ tpc[t] = "cache"
    /\ \E obs \in RacyRead(t) :
        IF CacheIsNil(obs)
        THEN /\ tpc' = [tpc EXCEPT ![t] = "fetch"]
             /\ UNCHANGED fetched
        ELSE /\ tpc' = [tpc EXCEPT ![t] = "graphql"]
             /\ fetched' = [fetched EXCEPT ![t] = obs[1]]
    /\ UNCHANGED <<failed, mainVars, toolCalls, startAPICalls, resApiCalls, resultsChan, ownCalls,
                   cacheVars, callsMade, apiCallCount, notRun>>

\* getCachedMaintainers: the collaborators request answers with a list
FetchCollaborators(t) ==
    /\ tpc[t] = "fetch"
    /\ HelperCall(t)
    /\ \E list \in CollaboratorLists : fetched' = [fetched EXCEPT ![t] = list]
    /\ fetchesOK' = fetchesOK + 1
    /\ tpc' = [tpc EXCEPT ![t] = "store"]
    /\ UNCHANGED <<failed, mainVars, toolCalls, startAPICalls, resApiCalls, resultsChan,
                   maintainersCache, cacheWrites, notRun>>

\* getCachedMaintainers: the collaborators request fails or answers with a
\* non-list, and get_issue_state returns its error response
FetchCollaboratorsFails(t) ==
    /\ tpc[t] = "fetch"
    /\ HelperCall(t)
    /\ tpc' = [tpc EXCEPT ![t] = "agent"]
    /\ UNCHANGED <<failed, mainVars, toolCalls, startAPICalls, resApiCalls, resultsChan, fetched,
                   cacheVars, notRun>>

\* getCachedMaintainers: the assignment to maintainersCache
StoreCache(t) ==
    /\ tpc[t] = "store"
    /\ \E v \in RacyWrite(t) :
        /\ maintainersCache' = v
        /\ cacheWrites' = Append(cacheWrites, v[1])
    /\ tpc' = [tpc EXCEPT ![t] = "graphql"]
    /\ UNCHANGED <<failed, mainVars, toolCalls, startAPICalls, resApiCalls, resultsChan, fetched,
                   ownCalls, fetchesOK, callsMade, apiCallCount, notRun>>

\* get_issue_state: FetchGraphQLData's request, after which the tool returns
FetchGraphQL(t) ==
    /\ tpc[t] = "graphql"
    /\ HelperCall(t)
    /\ tpc' = [tpc EXCEPT ![t] = "agent"]
    /\ UNCHANGED <<failed, mainVars, toolCalls, startAPICalls, resApiCalls, resultsChan, fetched,
                   cacheVars, notRun>>

\* get_issue_state: FetchGraphQLData's request is answered with a body on
\* which FetchGraphQLData panics; the deferred recover of processSingleIssue
\* logs it and the closure ends
FetchGraphQLPanics(t) ==
    /\ tpc[t] = "graphql"
    /\ HelperCall(t)
    /\ failed' = [failed EXCEPT ![t] = "panic"]
    /\ tpc' = [tpc EXCEPT ![t] = "end"]
    /\ UNCHANGED <<mainVars, toolCalls, startAPICalls, resApiCalls, resultsChan, fetched,
                   cacheVars, notRun>>

\* the agent's event stream ends
AgentEnds(t) ==
    /\ tpc[t] = "agent"
    /\ tpc' = [tpc EXCEPT ![t] = "end"]
    /\ UNCHANGED <<failed, mainVars, toolCalls, startAPICalls, resApiCalls, resultsChan, fetched,
                   ownCalls, cacheVars, callsMade, apiCallCount, notRun>>

\* processSingleIssue: the second reading, and the send on resultsChan
TaskEnd(t) ==
    /\ tpc[t] = "end"
    /\ resApiCalls' = [resApiCalls EXCEPT ![t] = ApiCallsDelta(startAPICalls[t], apiCallCount)]
    /\ resultsChan' = resultsChan \cup {t}
    /\ tpc' = [tpc EXCEPT ![t] = "done"]
    /\ UNCHANGED <<failed, mainVars, toolCalls, startAPICalls, fetched, ownCalls,
                   cacheVars, callsMade, apiCallCount, notRun>>

\* main: wg.Wait returns, the results are summed, and the loop either sleeps or
\* goes on to its next test
ChunkDone ==
    /\ mpc = "chunk"
    /\ WaitGroupDone(Chunk, tpc)
    /\ totalIssueAPICalls' = totalIssueAPICalls + SumOver(resApiCalls, resultsChan)
    /\ processedCount' = processedCount + Cardinality(Chunk)
    /\ IF SleepsAfterChunk(Min(loopI + limit, totalCount), totalCount)
       THEN /\ mpc' = "sleep"
            /\ UNCHANGED loopI
       ELSE /\ mpc' = "loop"
            /\ loopI' = loopI + limit
    /\ UNCHANGED <<totalCount, limit, searchAPICalls, totalAPICallsForRun, pacingSleeps,
                   chunks, reported, taskVars, cacheVars, callsMade, apiCallCount, notRun>>

\* main: the sleep between two chunks
PacingSleep ==
    /\ mpc = "sleep"
    /\ pacingSleeps' = pacingSleeps + 1
    /\ loopI' = loopI + limit
    /\ mpc' = "loop"
    /\ UNCHANGED <<totalCount, limit, totalIssueAPICalls, processedCount, searchAPICalls,
                   totalAPICallsForRun, chunks, reported, taskVars, cacheVars, callsMade, apiCallCount, notRun>>

\* main: the loop ends and the run's total is computed
FinishRun ==
    /\ mpc = "loop"
    /\ ~(loopI < totalCount)
    /\ totalAPICallsForRun' = searchAPICalls + totalIssueAPICalls
    /\ reported' = <<processedCount>>
    /\ mpc' = "finished"
    /\ UNCHANGED <<totalCount, limit, loopI, totalIssueAPICalls, processedCount,
                   searchAPICalls, pacingSleeps, chunks,
                   taskVars, cacheVars, callsMade, apiCallCount, notRun>>

RunNext ==
    \/ Search
    \/ StartChunk
    \/ ChunkDone
    \/ PacingSleep
    \/ FinishRun
    \/ Shutdown
    \/ \E t \in Issues : TaskStart(t)
    \/ \E t \in Issues : SetupDone(t)
    \/ \E t \in Issues : SessionCreateFails(t)
    \/ \E t \in Issues : RunnerNewFails(t)
    \/ \E t \in Issues : FetchGraphQLPanics(t)
    \/ \E t \in Issues : CallGetIssueState(t)
    \/ \E t \in Issues : CacheCheck(t)
    \/ \E t \in Issues : FetchCollaborators(t)
    \/ \E t \in Issues : FetchCollaboratorsFails(t)
    \/ \E t \in Issues : StoreCache(t)
    \/ \E t \in Issues : FetchGraphQL(t)
    \/ \E t \in Issues : AgentEnds(t)
    \/ \E t \in Issues : TaskEnd(t)

SpecRun == RunInit /\ [][RunNext]_vars

\* the goroutines between the nil test and the assignment to the cache
InCacheFill == {t \in Issues : tpc[t] \in {"fetch", "store"}}

\* C5: the collaborators list is fetched successfully at most once per process,
\* and once the cache is populated its content never changes: every list ever
\* assigned to it is the first one.
C5_FetchedOnceAndNeverChanges ==
    /\ fetchesOK <= 1
    /\ \A i \in 1..Len(cacheWrites) : cacheWrites[i] = cacheWrites[1]

\* C6: no interleaving lets two goroutines both see the cache unpopulated and
\* both go on to fetch and assign it: at most one goroutine is between the nil
\* test and the assignment, and the cache is assigned at most once.
C6_CacheFillExclusive ==
    /\ Cardinality(InCacheFill) <= 1
    /\ Len(cacheWrites) <= 1

\* C7: when the run finishes after processing issues, the total it reports is
\* the number of request helper calls made since the reset, and each issue's
\* figure is the number of calls made for that issue.
C7_ReportedTotalIsActual ==
    (mpc = "finished" /\ totalCount > 0) =>
        /\ totalAPICallsForRun = callsMade
        /\ \A t \in 1..totalCount : resApiCalls[t] = ownCalls[t]

\* with one goroutine per chunk the cache is fetched once and the figures are exact
SequentialRunExact ==
    limit = 1 => C5_FetchedOnceAndNeverChanges /\ C6_CacheFillExclusive /\ C7_ReportedTotalIsActual


CeilDiv(n, c) == (n + c - 1) \div c

\* the k-th block of c consecutive issues of a list of n
Block(k, c, n) == ((k - 1) * c + 1)..Min(k * c, n)

\* C13: for n >= 1 issues and limit c >= 1 the run launches exactly ceil(n/c)
\* chunks, the consecutive blocks of c issues (the last possibly shorter), so
\* that every issue is in exactly one chunk, and sleeps once after each chunk
\* but the last: ceil(n/c) - 1 times.
C13_ChunksPartition ==
    /\ \A k \in 1..Len(chunks) : chunks[k] = Block(k, limit, totalCount)
    /\ mpc \in {"chunk", "sleep"} => pacingSleeps = Len(chunks) - 1
    /\ (mpc = "finished" /\ totalCount >= 1) =>
          /\ Len(chunks) = CeilDiv(totalCount, limit)
          /\ pacingSleeps = CeilDiv(totalCount, limit) - 1
          /\ \A t \in 1..totalCount :
                Cardinality({k \in 1..Len(chunks) : t \in chunks[k]}) = 1

\* three issues with limit 2: chunks of 2 and 1, one sleep
C13_Witness ==
    /\ mpc = "finished"
    /\ totalCount = 3
    /\ limit = 2
    /\ chunks = <<{1, 2}, {3}>>
    /\ pacingSleeps = 1

\* the tasks that have started and not finished
InFlight == {t \in Issues : tpc[t] \notin {"unstarted", "done"}}

\* C14: at most ConcurrencyLimit tasks are in flight, all of the chunk launched
\* last; when a chunk is launched every task of the earlier chunks has
\* finished; and the totals hold the figures of whole finished chunks only.
C14_ChunkBarrier ==
    /\ Cardinality(InFlight) <= limit
    /\ InFlight # {} => Len(chunks) > 0 /\ InFlight \subseteq chunks[Len(chunks)]
    /\ \A k \in 1..(Len(chunks) - 1) : \A t \in chunks[k] : tpc[t] = "done"
    /\ \A t \in 1..processedCount : tpc[t] = "done"
    /\ \E j \in 0..Len(chunks) : processedCount = Min(j * limit, totalCount)
    /\ totalIssueAPICalls = SumOver(resApiCalls, 1..processedCount)

\* the second chunk is in flight after the two tasks of the first finished and
\* were added to the totals
C14_Witness ==
    /\ mpc = "chunk"
    /\ limit = 2
    /\ Len(chunks) = 2
    /\ tpc[3] = "agent"
    /\ processedCount = 2
    /\ resApiCalls[1] > 0
    /\ totalIssueAPICalls = resApiCalls[1] + resApiCalls[2]

\* C15: whatever goes wrong inside one issue's task (a panic, or the session
\* or the runner failing to be set up) stays inside that task: the task ends
\* after logging it, and the process goes on.
C15_FailureIsolated ==
    \A t \in Issues :
        failed[t] # "none" => (tpc[t] \in {"end", "done"} \/ mpc = "killed") /\ mpc # "exited"

\* what the code does isolate: a recovered panic and a failed session
PanicAndSessionIsolated ==
    \A t \in Issues :
        failed[t] \in {"panic", "session"} =>
            \/ tpc[t] \in {"end", "done"}
            \/ mpc \in {"killed", "exited"}

\* C17: when the run is cancelled from outside while it is under way, the
\* orchestrator still makes its report, and the report counts the issues
\* that had finished by then.
C17_CancellationReported ==
    mpc = "killed" => reported = <<Cardinality({t \in Issues : tpc[t] = "done"})>>


-----------------------------------------------------------------------------
(* The chunk loop of main for every value CONCURRENCY_LIMIT can take         *)
(* (part_001:53, 75-85: getEnvInt returns whatever strconv.Atoi parses, with *)
(* no test of its sign), each task running to its end.  Runnable goroutines  *)
(* are scheduled, so a step that can be taken is eventually taken.           *)

ConfigLimits == (0 - MaxConcurrency)..MaxConcurrency

LoopInit ==
    /\ BuildIdle
    /\ IssueIdle
    /\ ReqIdle
    /\ CounterIdle
    /\ CtrIdle
    /\ FetchIdle
    /\ ActIdle
    /\ mpc = "search"
    /\ totalCount = 0
    /\ limit \in ConfigLimits
    /\ loopI = 0
    /\ tpc = [t \in Issues |-> "unstarted"]
    /\ toolCalls = [t \in Issues |-> 0]
    /\ startAPICalls = [t \in Issues |-> 0]
    /\ resApiCalls = [t \in Issues |-> 0]
    /\ resultsChan = {}
    /\ totalIssueAPICalls = 0
    /\ processedCount = 0
    /\ searchAPICalls = 0
    /\ totalAPICallsForRun = 0
    /\ pacingSleeps = 0
    /\ chunks = <<>>
    /\ reported = <<>>
    /\ failed = [t \in Issues |-> "none"]
    /\ maintainersCache = <<>>
    /\ fetched = [t \in Issues |-> <<>>]
    /\ ownCalls = [t \in Issues |-> 0]
    /\ callsMade = 0
    /\ fetchesOK = 0
    /\ cacheWrites = <<>>

\* main: the loop body panics in the main goroutine (slice bounds out of
\* range, or integer divide by zero) and the process ends
ChunkPanics ==
    /\ mpc = "loop"
    /\ loopI < totalCount
    /\ LoopBodyPanics(loopI, limit, totalCount)
    /\ mpc' = "panicked"
    /\ UNCHANGED <<totalCount, limit, loopI, totalIssueAPICalls, processedCount,
                   searchAPICalls, totalAPICallsForRun, pacingSleeps, chunks, reported,
                   taskVars, cacheVars, callsMade, apiCallCount, notRun>>

LoopNext ==
    \/ Search
    \/ StartChunk
    \/ ChunkPanics
    \/ ChunkDone
    \/ PacingSleep
    \/ FinishRun
    \/ \E t \in Issues : TaskStart(t)
    \/ \E t \in Issues : SetupDone(t)
    \/ \E t \in Issues : SessionCreateFails(t)
    \/ \E t \in Issues : AgentEnds(t)
    \/ \E t \in Issues : TaskEnd(t)

SpecLoop == LoopInit /\ [][LoopNext]_vars /\ WF_vars(LoopNext)

RunComplete == mpc = "finished" /\ processedCount = totalCount

\* C26: for every issue list and every integer the configuration can give as
\* concurrency limit, with every task running to its end, the run eventually
\* is finished with every issue processed.
C26_LoopTerminates == <>RunComplete

\* what the loop does guarantee: termination for a limit of at least 1
PositiveLimitTerminates == (mpc = "search" /\ limit >= 1) ~> RunComplete

\* the loop body panics exactly when the limit is below 1
PanicsIffLimitBelowOne ==
    /\ mpc = "panicked" => limit < 1 /\ processedCount = 0 /\ totalCount > 0
    /\ (limit < 1 /\ totalCount > 0) => mpc \in {"loop", "panicked"}

-----------------------------------------------------------------------------
(* The two-step actions closeAsStale and addStaleLabelAndComment             *)
(* (agent.go:461-502, 524-562): a comment is posted, then the issue is       *)
(* patched to closed or the stale label is added.  Each request is a call of *)
(* PostRequest or PatchRequest, which ends with doRequest's error or with    *)
(* the response doRequest handed back and decodeJSON's result for its body.  *)

Tools == {"closeAsStale", "addStaleLabelAndComment"}

\* what a request helper call comes back with (util.go:139-146, 158-165):
\* doRequest's error, or a response of a status that is not retried with the
\* decoded body or the decoding error; the status is not looked at
HelperReturns(m) ==
    {[resp |-> <<>>, result |-> "error"]}
    \cup {[resp |-> <<o>>, result |-> r] :
            o \in {x \in AttemptOutcomes : ReturnsResponse(x)}, r \in {"data", "error"}}

\* the tracker carried the request out
Accepted(ret) == ret.resp # <<>> /\ ret.resp[1].status \in {200, 204}

\* agent.go:479, 492, 539, 552: err != nil
HelperFailed(ret) == ret.result = "error"

\* the second request of the action: agent.go:552 and agent.go:492
SecondRequest(name) ==
    IF name = "closeAsStale"
    THEN [method |-> "PATCH", target |-> "issue"]
    ELSE [method |-> "POST", target |-> "labels"]

Call(m, target, ret) == [method |-> m, target |-> target, ret |-> ret]

\* what a request that the tracker carried out changes on the issue
Applied(issue, target, ret) ==
    IF ~Accepted(ret) THEN issue
    ELSE CASE target = "comments" -> [issue EXCEPT !.comments = Min(@ + 1, MaxActions)]
           [] target = "labels" -> [issue EXCEPT !.stale = TRUE]
           [] OTHER -> [issue EXCEPT !.closed = TRUE]

ActInit ==
    /\ BuildIdle
    /\ IssueIdle
    /\ ReqIdle
    /\ CounterIdle
    /\ CtrIdle
    /\ RunIdle
    /\ FetchIdle
    /\ ActIdle

\* the agent invokes the action
InvokeTool(name) ==
    /\ apc \in {"idle", "returned"}
    /\ invoked < MaxActions
    /\ invoked' = invoked + 1
    /\ tool' = name
    /\ calls' = <<>>
    /\ toolResult' = "none"
    /\ apc' = "first"
    /\ UNCHANGED <<remote, apiCallCount>>
    /\ UNCHANGED notAct

\* 1. Post comment, and the return on its error
PostActionComment ==
    /\ apc = "first"
    /\ \E ret \in HelperReturns("POST") :
        /\ calls' = <<Call("POST", "comments", ret)>>
        /\ remote' = Applied(remote, "comments", ret)
        /\ IF HelperFailed(ret)
           THEN apc' = "returned" /\ toolResult' = "failure"
           ELSE apc' = "second" /\ toolResult' = "none"
    /\ apiCallCount' = incrementAPICallCount(apiCallCount)
    /\ UNCHANGED <<tool, invoked>>
    /\ UNCHANGED notAct

\* 2. Close issue / Add label, and the action's return
SecondStep ==
    /\ apc = "second"
    /\ LET req == SecondRequest(tool)
       IN \E ret \in HelperReturns(req.method) :
            /\ calls' = Append(calls, Call(req.method, req.target, ret))
            /\ remote' = Applied(remote, req.target, ret)
            /\ toolResult' = IF HelperFailed(ret) THEN "failure" ELSE "success"
    /\ apc' = "returned"
    /\ apiCallCount' = incrementAPICallCount(apiCallCount)
    /\ UNCHANGED <<tool, invoked>>
    /\ UNCHANGED notAct

ActNext ==
    \/ \E name \in Tools : InvokeTool(name)
    \/ PostActionComment
    \/ SecondStep

SpecAct == ActInit /\ [][ActNext]_vars

\* the request was carried out: it was answered with a success status
Succeeded(c) == c.ret.resp # <<>> /\ c.ret.resp[1].status \in {200, 204}

\* C27: the second request of a two-step action is made only after the
\* comment was posted successfully (close-as-stale patches the issue, mark-
\* stale adds the label); when the first request fails the second is never
\* made; and the action returns success only if both requests succeeded.
C27_OrderedStopAtFailure ==
    /\ Len(calls) <= 2
    /\ Len(calls) >= 1 => calls[1].method = "POST" /\ calls[1].target = "comments"
    /\ Len(calls) = 2 =>
          /\ Succeeded(calls[1])
          /\ calls[2].target = IF tool = "closeAsStale" THEN "issue" ELSE "labels"
    /\ (apc = "returned" /\ ~Succeeded(calls[1])) => Len(calls) = 1
    /\ toolResult = "success" =>
          Len(calls) = 2 /\ Succeeded(calls[1]) /\ Succeeded(calls[2])

\* what the actions do guarantee, with success read as "the helper returned no
\* error": the order, the stop at the first error, and status success exactly
\* when neither helper call returned an error
OrderedStopAtHelperError ==
    /\ Len(calls) <= 2
    /\ Len(calls) >= 1 => calls[1].method = "POST" /\ calls[1].target = "comments"
    /\ Len(calls) = 2 =>
          /\ calls[1].ret.result = "data"
          /\ calls[2].target = IF tool = "closeAsStale" THEN "issue" ELSE "labels"
          /\ calls[2].method = IF tool = "closeAsStale" THEN "PATCH" ELSE "POST"
    /\ (apc = "returned" /\ calls[1].ret.result = "error") =>
          Len(calls) = 1 /\ toolResult = "failure"
    /\ apc = "returned" =>
          (toolResult = "success" <=>
              Len(calls) = 2 /\ \A i \in 1..2 : calls[i].ret.result = "data")
    /\ apc # "returned" => toolResult = "none"

\* the issue was closed with status success although no comment was posted
ClosedWithoutComment ==
    /\ apc = "returned"
    /\ tool = "closeAsStale"
    /\ invoked = 1
    /\ toolResult = "success"
    /\ remote = [comments |-> 0, stale |-> FALSE, closed |-> TRUE]

-----------------------------------------------------------------------------
(* One call of get_issue_state, from its two requests to its return          *)
(* (agent.go:565-576 and FetchGraphQLData, agent.go:162-187): the decoded    *)
(* JSON bodies are values tagged with their JSON type.                       *)

JNull == [t |-> "null"]
JString == [t |-> "string"]
JList(items) == [t |-> "list", items |-> items]
JObject == [t |-> "object"]

\* the value of the issue field
IssueValues == {JNull, JString, [t |-> "object", number |-> JString]}

RepositoryValues ==
    {JNull, JString, JObject} \cup {[t |-> "object", issue |-> i] : i \in IssueValues}

DataValues ==
    {JNull, JString, JObject} \cup {[t |-> "object", repository |-> r] : r \in RepositoryValues}

ErrorsValues ==
    {JNull, JString, JList(<<>>), JList(<<JString>>),
     JList(<<[t |-> "object", message |-> JString]>>)}

\* the bodies the GraphQL endpoint can answer with: not an object, an object
\* without data (such as the body of a 401), data alone, errors alone, both
ResponseBodies ==
    {JNull, JString, JList(<<>>), JObject, [t |-> "object", message |-> JString]}
        \cup {[t |-> "object", data |-> d] : d \in DataValues}
        \cup {[t |-> "object", errors |-> e] : e \in ErrorsValues}
        \cup {[t |-> "object", errors |-> e, data |-> d] : e \in ErrorsValues, d \in DataValues}

\* what PostRequest returns: an error, or the decoded body
PostResults ==
    {[kind |-> "error"]} \cup {[kind |-> "data", body |-> b] : b \in ResponseBodies}

\* what getCachedMaintainers returns
ListResults ==
    {[kind |-> "error"]} \cup {[kind |-> "list", list |-> l] : l \in CollaboratorLists \cup {<<>>}}

\* m[key] of a map[string]any: nil when the key is absent
Index(m, key) == IF key \in DOMAIN m THEN m[key] ELSE JNull

\* v.(map[string]any) succeeds
IsMap(v) == v.t = "object"

Panic == [kind |-> "panic"]
Failure(msg) == [kind |-> "error", error |-> msg]

\* FetchGraphQLData from the return of PostRequest on
FetchGraphQLData(r) ==
    IF r.kind = "error" THEN Failure("request failed")
    ELSE IF ~IsMap(r.body) THEN Failure("invalid GraphQL response format")
    ELSE IF "errors" \in DOMAIN r.body
    THEN LET errs == r.body.errors
         IN IF errs.t # "list" THEN Panic
            ELSE IF Len(errs.items) = 0 THEN Panic
            ELSE IF ~IsMap(errs.items[1]) THEN Panic
            ELSE Failure("GraphQL Error")
    ELSE LET data == Index(r.body, "data")
         IN IF ~IsMap(data) THEN Panic
            ELSE LET repo == Index(data, "repository")
                 IN IF ~IsMap(repo) THEN Panic
                    ELSE LET issue == Index(repo, "issue")
                         IN IF issue = JNull THEN Failure("Issue not found.")
                            ELSE IF ~IsMap(issue) THEN Panic
                            ELSE [kind |-> "issue", issue |-> issue]

errorResponseOf(msg) == [status |-> "error", error |-> msg]

Panicked == [status |-> "panic"]

FetchInit ==
    /\ BuildIdle
    /\ IssueIdle
    /\ ReqIdle
    /\ CounterIdle
    /\ CtrIdle
    /\ RunIdle
    /\ ActIdle
    /\ fpc = "start"
    /\ listResult = NoValue
    /\ gqlResult = NoValue
    /\ toolOut = NoResult

\* getIssueState: getCachedMaintainers and the test of its error
ListMaintainers ==
    /\ fpc = "start"
    /\ \E l \in ListResults :
        /\ listResult' = l
        /\ IF l.kind = "error"
           THEN /\ fpc' = "returned"
                /\ toolOut' = errorResponseOf("error getting cached maintainers")
           ELSE /\ fpc' = "listed"
                /\ UNCHANGED toolOut
    /\ UNCHANGED gqlResult
    /\ UNCHANGED notFetch

\* getIssueState: FetchGraphQLData and what follows it
QueryIssue ==
    /\ fpc = "listed"
    /\ \E r \in PostResults :
        /\ gqlResult' = r
        /\ LET got == FetchGraphQLData(r)
           IN toolOut' = CASE got.kind = "panic" -> Panicked
                           [] got.kind = "error" -> errorResponseOf("network error")
                           [] OTHER -> [status |-> "success"]
    /\ fpc' = "returned"
    /\ UNCHANGED listResult
    /\ UNCHANGED notFetch

\* the agent calls the tool again
CallAgain ==
    /\ fpc = "returned"
    /\ fpc' = "start"
    /\ listResult' = NoValue
    /\ gqlResult' = NoValue
    /\ toolOut' = NoResult
    /\ UNCHANGED notFetch

FetchNext ==
    \/ ListMaintainers
    \/ QueryIssue
    \/ CallAgain

SpecFetch == FetchInit /\ [][FetchNext]_vars

\* the failures of the per-issue query: the request failed, the body is not
\* an object, it has a top-level errors entry, data or repository is missing
\* or null, or the issue is absent
QueryFailed(r) ==
    \/ r.kind = "error"
    \/ ~IsMap(r.body)
    \/ "errors" \in DOMAIN r.body
    \/ Index(r.body, "data") = JNull
    \/ IsMap(Index(r.body, "data")) /\ Index(r.body.data, "repository") = JNull
    \/ /\ IsMap(Index(r.body, "data"))
       /\ IsMap(Index(r.body.data, "repository"))
       /\ Index(r.body.data.repository, "issue") = JNull

\* C16: getIssueState never panics, and whenever the maintainer listing or
\* the per-issue query fails it returns the payload {status: error, error:
\* reason}.
C16_NeverRaises ==
    fpc = "returned" =>
        /\ toolOut # Panicked
        /\ (listResult.kind = "error" \/ (gqlResult # NoValue /\ QueryFailed(gqlResult)))
              => toolOut.status = "error" /\ "error" \in DOMAIN toolOut

\* the failures the code does turn into the error payload
HandledFailures ==
    (fpc = "returned" /\ gqlResult # NoValue) =>
        (FetchGraphQLData(gqlResult).kind = "error" => toolOut = errorResponseOf("network error"))

====
